---- MODULE Spec2Model ----
(***************************************************************************)
(* DARF analyzer: the document orchestrator (App.tsx) and the calculation  *)
(* panel of a document card (DarfCard.tsx), as state machines.             *)
(*                                                                         *)
(* Money is counted in whole cents.  A JavaScript string that the code     *)
(* takes apart (an item code, a description, the withholding field, a text *)
(* written to the clipboard) is a sequence of one-character strings.  A    *)
(* JavaScript object is a record; an optional field that was never written *)
(* is a field the record does not have.                                    *)
(***************************************************************************)
EXTENDS Integers, Sequences, FiniteSets, Bags, TLC

VARIABLES
    \* ---- App.tsx ----
    darfs,          \* useState<DarfDocument[]>: the document list
    tasks,          \* per selected file: its setTimeout callback / processDocument call
    nextFile,       \* number of File objects handed over so far, plus one
    \* ---- DarfCard.tsx (one mounted card of a Success document) ----
    calcMode,       \* useState<CalculationMode>
    irInputValue,   \* useState<string>: the withholding field
    copyStage,      \* useState<CopyStage>
    feedbackMessage,\* useState<string>
    copiedRowIndex, \* useState<number | null>
    irFocused,      \* the withholding input holds the focus
    clipboard,      \* the text the platform clipboard holds
    writes,         \* navigator.clipboard.writeText calls in flight (a bag)
    copyTimers,     \* pending setTimeout(() => setCopyStage('idle'), 2500)
    rowTimers,      \* pending setTimeout(() => setCopiedRowIndex(null), 2000)
    noCopySinceMode,\* history: a mode button was used and no copy initiated since
    consoleError,   \* the last line the card wrote with console.error
    \* ---- FileUploader.tsx ----
    isDragging,     \* useState(false)
    disabled,       \* the disabled prop
    fileType,       \* File.type of the files the uploader's events brought, by file number
    passed          \* <<list>>: the argument of the uploader's last
                    \* onFilesSelected call; <<>> before the first call

appVars  == <<darfs, tasks, nextFile>>
cardVars == <<calcMode, irInputValue, copyStage, feedbackMessage,
              copiedRowIndex, irFocused, clipboard, writes, copyTimers,
              rowTimers, noCopySinceMode, consoleError>>
uploaderVars == <<isDragging, disabled, fileType, passed>>
vars     == <<appVars, cardVars, uploaderVars>>

(***************************************************************************)
(* Bounds of the model.                                                    *)
(***************************************************************************)
MaxFiles  == 2      \* files selected over a whole run
MaxBatch  == 2      \* files in one selection
NumIds    == 2      \* distinct strings the id generator can return
MaxItems  == 2      \* items of an extraction result
MaxDigits == 1      \* significant digits typed into the withholding field
MaxWrites == 1      \* clipboard writes in flight at once
MaxTimers == 1      \* acknowledgment timers pending at once (of each kind)
MaskDigits == 9     \* significant digits of the amounts typed under SpecMask

Ids   == 1..NumIds

(***************************************************************************)
(* JavaScript helpers.                                                     *)
(***************************************************************************)
\* { ...doc, ...upd }
Spread(doc, upd) ==
    [k \in DOMAIN doc \cup DOMAIN upd |-> IF k \in DOMAIN upd THEN upd[k] ELSE doc[k]]

Has(obj, field) == field \in DOMAIN obj

(***************************************************************************)
(* Extraction results the orchestrator can be handed.  The extractor       *)
(* returns whatever JSON.parse gives, so a result may lack its items.      *)
(***************************************************************************)
EmployeeItem  == [code |-> <<"1","0","8","2">>, description |-> <<"C","P">>,
                  principal |-> 1, multa |-> 0, juros |-> 0, total |-> 1]
RetentionItem == [code |-> <<"5","9","5","2">>, description |-> <<"C","P">>,
                  principal |-> 2, multa |-> 0, juros |-> 0, total |-> 2]
AppItems == {EmployeeItem, RetentionItem}

\* the item lists handed over: up to MaxItems items, the two kinds alternating
Alternating(first, k) ==
    [i \in 1..k |-> IF i % 2 = 1 THEN first ELSE CHOOSE it \in AppItems : it # first]
AppItemLists == {Alternating(first, k) : first \in AppItems, k \in 0..MaxItems}

WellFormedResults == {[headerTotal |-> 3, items |-> its] : its \in AppItemLists}
NoItemsResult == [headerTotal |-> 3]
AppResults == WellFormedResults \cup {NoItemsResult}

\* What a rejected call can carry: an Error with its message, or another value
\* (FileReader's onerror rejects with an event).
ParseError         == [instanceOfError |-> TRUE,
                       message |-> "Falha ao interpretar a resposta da IA."]
ReaderEvent        == [instanceOfError |-> FALSE]
Rejections == {ParseError, ReaderEvent}
\* result.items.reduce on a result without items
FoldTypeError == [instanceOfError |-> TRUE,
                  message |-> "Cannot read properties of undefined (reading 'reduce')"]

(***************************************************************************)
(* App.tsx: the document orchestrator.                                     *)
(***************************************************************************)
RECURSIVE Reduce(_, _)
\* items.reduce((acc, item) => acc + item.total, acc0)
Reduce(items, acc) ==
    IF items = <<>> THEN acc ELSE Reduce(Tail(items), acc + Head(items).total)

\* mutant: the total made category-aware, retention items left out
CalculatedTotal_SkipsRetention(res) ==
    Reduce(SelectSeq(res.items, LAMBDA it : it # RetentionItem), 0)

CalculatedTotal(res) == Reduce(res.items, 0)

\* mutant: the updater without its doc.id === id test
SuccessUpdater_NoIdTest(prev, id, res, total) ==
    [i \in DOMAIN prev |->
        [k \in DOMAIN prev[i] \cup {"status", "result", "calculatedTotal"} |->
            CASE k = "status" -> "SUCCESS"
              [] k = "result" -> res
              [] k = "calculatedTotal" -> total
              [] OTHER -> prev[i][k]]]

\* setDarfs(prev => prev.map(doc => doc.id === id ? {...doc, SUCCESS, result, calculatedTotal} : doc))
SuccessUpdater(prev, id, res, total) ==
    LET f(doc) == IF doc.id = id
                  THEN Spread(doc, [status |-> "SUCCESS", result |-> res,
                                    calculatedTotal |-> total])
                  ELSE doc
    IN  [i \in DOMAIN prev |-> f(prev[i])]

\* error instanceof Error ? error.message : 'Erro desconhecido'
ErrorMessageOf(error) ==
    IF error.instanceOfError THEN error.message ELSE "Erro desconhecido"

\* mutant: the failed document taken out of the list
ErrorUpdater_Drops(prev, id, error) == SelectSeq(prev, LAMBDA doc : doc.id # id)

\* setDarfs(prev => prev.map(doc => doc.id === id ? {...doc, ERROR, errorMessage} : doc))
ErrorUpdater(prev, id, error) ==
    LET f(doc) == IF doc.id = id
                  THEN Spread(doc, [status |-> "ERROR",
                                    errorMessage |-> ErrorMessageOf(error)])
                  ELSE doc
    IN  [i \in DOMAIN prev |-> f(prev[i])]

\* setDarfs(prev => prev.map(d => d.id === doc.id ? {...d, PROCESSING} : d))
ProcessingUpdater(prev, id) ==
    LET f(d) == IF d.id = id THEN Spread(d, [status |-> "PROCESSING"]) ELSE d
    IN  [i \in DOMAIN prev |-> f(prev[i])]

\* files.map(file => ({ id: Math.random()..., file, fileName, status: PENDING }))
\* ids[i] is what the i-th Math.random() call gave.  uploadTimestamp is written
\* here and read nowhere; it is left out.
NewDocs(files, ids) ==
    [i \in DOMAIN files |->
        [id |-> ids[i], file |-> files[i], fileName |-> files[i], status |-> "PENDING"]]

\* mutant: the new documents put behind the list
PrependUpdater_Appends(newDocs, prev) == prev \o newDocs

\* setDarfs(prev => [...newDocs, ...prev])
PrependUpdater(newDocs, prev) == newDocs \o prev

SetPc(t, pc) == (tasks \ {t}) \cup {[t EXCEPT !.pc = pc]}

\* handleFilesSelected(files): n files, the i-th given id ids[i]
OnFilesSelected(files, ids) ==
    LET newDocs == NewDocs(files, ids)
    IN  /\ darfs' = PrependUpdater(newDocs, darfs)
        /\ tasks' = tasks \cup
                      {[id |-> newDocs[i].id, file |-> newDocs[i].file, pc |-> "timer"]
                          : i \in 1..Len(files)}
        /\ UNCHANGED cardVars

\* handleFilesSelected called with the next n File objects
HandleFilesSelected(n, ids) ==
    LET files == [i \in 1..n |-> nextFile + i - 1]
    IN  /\ nextFile + n - 1 <= MaxFiles
        /\ OnFilesSelected(files, ids)
        /\ nextFile' = nextFile + n
        /\ UNCHANGED uploaderVars

(***************************************************************************)
(* The uploader (components/FileUploader.tsx).  A File's type is its MIME  *)
(* type, a string the code compares and takes the prefix of.               *)
(***************************************************************************)
ApplicationPdf == <<"a","p","p","l","i","c","a","t","i","o","n","/","p","d","f">>
ImagePrefix    == <<"i","m","a","g","e","/">>
ImagePng       == ImagePrefix \o <<"p","n","g">>
TextPlain      == <<"t","e","x","t","/","p","l","a","i","n">>
UnknownType    == <<>>          \* File.type of a file of unknown type is ""
FileTypes      == {ApplicationPdf, ImagePng, TextPlain, UnknownType}

\* lists of files a drop or a file dialog can deliver, by their types
TypeLists == UNION {[1..n -> FileTypes] : n \in 0..MaxBatch}

\* String.prototype.startsWith
StartsWith(str, prefix) ==
    /\ Len(str) >= Len(prefix)
    /\ SubSeq(str, 1, Len(prefix)) = prefix

\* f.type === 'application/pdf' || f.type.startsWith('image/')
IsValidType(type) == type = ApplicationPdf \/ StartsWith(type, ImagePrefix)

\* the File objects of an event: numbered on from nextFile
EventFiles(types) == [i \in 1..Len(types) |-> nextFile + i - 1]

\* files.filter(f => ...) over the files of the event
ValidFiles(types) ==
    LET Valid(f) == IsValidType(types[f - nextFile + 1])
    IN  SelectSeq(EventFiles(types), Valid)

\* the ids handleFilesSelected draws for the files it is passed
IdChoices(files) == [1..Len(files) -> Ids]

handleDragOver ==
    /\ ~disabled
    /\ isDragging' = TRUE
    /\ UNCHANGED <<appVars, cardVars, disabled, fileType, passed>>

handleDragLeave ==
    /\ isDragging' = FALSE
    /\ UNCHANGED <<appVars, cardVars, disabled, fileType, passed>>

handleDrop(types) ==
    /\ nextFile + Len(types) - 1 <= MaxFiles
    /\ nextFile' = nextFile + Len(types)
    /\ fileType' = fileType \o types
    /\ isDragging' = FALSE
    /\ UNCHANGED disabled
    /\ IF ~disabled /\ Len(ValidFiles(types)) > 0
          THEN /\ passed' = <<ValidFiles(types)>>
               /\ \E ids \in IdChoices(ValidFiles(types)) :
                      OnFilesSelected(ValidFiles(types), ids)
          ELSE UNCHANGED <<darfs, tasks, cardVars, passed>>

\* the change event of the <input type="file">, which is disabled with the
\* uploader
handleFileInput(types) ==
    /\ ~disabled
    /\ nextFile + Len(types) - 1 <= MaxFiles
    /\ nextFile' = nextFile + Len(types)
    /\ fileType' = fileType \o types
    /\ UNCHANGED <<isDragging, disabled>>
    /\ IF Len(types) > 0
          THEN /\ passed' = <<EventFiles(types)>>
               /\ \E ids \in IdChoices(EventFiles(types)) :
                      OnFilesSelected(EventFiles(types), ids)
          ELSE UNCHANGED <<darfs, tasks, cardVars, passed>>

\* The setTimeout(..., 100) callbacks run in the order they were set.
NextTimer(t) ==
    /\ t \in tasks /\ t.pc = "timer"
    /\ \A u \in tasks : u.pc = "timer" => t.file <= u.file

\* the setTimeout callback of handleFilesSelected
TimerCallback(t) ==
    /\ NextTimer(t)
    /\ darfs' = ProcessingUpdater(darfs, t.id)
    /\ tasks' = SetPc(t, "await")
    /\ UNCHANGED <<nextFile, cardVars, uploaderVars>>

\* processDocument(id, file) from the point analyzeDarfDocument(file) settles:
\* outcome.returns is the value it resolved with, outcome.throws what it
\* rejected with.
ProcessDocument(t, outcome) ==
    /\ t \in tasks /\ t.pc = "await"
    /\ IF Has(outcome, "returns")
       THEN IF Has(outcome.returns, "items")
            THEN /\ darfs' = SuccessUpdater(darfs, t.id, outcome.returns,
                                            CalculatedTotal(outcome.returns))
                 /\ tasks' = SetPc(t, "success")
            ELSE /\ darfs' = ErrorUpdater(darfs, t.id, FoldTypeError)
                 /\ tasks' = SetPc(t, "failure")
       ELSE /\ darfs' = ErrorUpdater(darfs, t.id, outcome.throws)
            /\ tasks' = SetPc(t, "failure")
    /\ UNCHANGED <<nextFile, cardVars, uploaderVars>>

ExtractionResolves(t, res) == ProcessDocument(t, [returns |-> res])
ExtractionRejects(t, err)  == ProcessDocument(t, [throws |-> err])

\* onClick={() => setDarfs([])}, rendered when darfs.length > 0
ClearAll ==
    /\ Len(darfs) > 0
    /\ darfs' = <<>>
    /\ UNCHANGED <<tasks, nextFile, cardVars, uploaderVars>>

(***************************************************************************)
(* analyzeDarfDocument(file), the call processDocument awaits.  The source *)
(* tree holds it twice: services/geminiService.ts makes its request once,  *)
(* unnamed/part_002 repeats it while the service answers 'overloaded'.  A  *)
(* task that is inside the call carries where it is (svc), its attempt     *)
(* counter and the number of generateContent calls it has made.            *)
(***************************************************************************)
maxRetries == 3

ServiceVariants == {"geminiService", "part_002"}

\* What JSON.parse can give back: the service is asked for headerTotal and
\* items with code, principal, multa, juros and total, and the text it sends
\* is taken as it comes.
NoHeaderResult == [items |-> <<EmployeeItem>>]
NoCodeResult ==
    [headerTotal |-> 1,
     items |-> <<[principal |-> 1, multa |-> 0, juros |-> 0, total |-> 1]>>]
ParsedResults ==
    {[headerTotal |-> 3, items |-> <<EmployeeItem, RetentionItem>>],
     NoItemsResult, NoHeaderResult, NoCodeResult}

\* How a generateContent call settles: rejected by the client library (the
\* service overloaded, or another failure), or resolved with a response whose
\* text is empty, is not JSON, or is the JSON of one of ParsedResults.
\* (saysOverloaded: the message contains 'overloaded')
OverloadedReply == [kind |-> "rejected", status |-> 503, saysOverloaded |-> TRUE,
                    message |-> "The model is overloaded. Please try again later."]
RefusedReply    == [kind |-> "rejected", status |-> 400, saysOverloaded |-> FALSE,
                    message |-> "API key not valid."]
\* A text that is not JSON makes JSON.parse throw a SyntaxError whose message
\* is the engine's: V8 quotes the text in it (Unexpected token 'o',
\* "overloaded" is not valid JSON), so it contains 'overloaded' if the quoted
\* text does.
GarbledReplies == {[kind |-> "garbled", saysOverloaded |-> b] : b \in BOOLEAN}
Replies ==
    {OverloadedReply, RefusedReply, [kind |-> "empty"]} \cup GarbledReplies
        \cup {[kind |-> "json", data |-> r] : r \in ParsedResults}

EmptyResponseError ==
    [instanceOfError |-> TRUE,
     message |-> "Falha ao analisar o documento: Resposta vazia da IA."]
OverloadedError ==
    [instanceOfError |-> TRUE,
     message |-> "O sistema da IA está temporariamente sobrecarregado. Por favor, aguarde alguns instantes e tente novamente."]
UnreadableError ==
    [instanceOfError |-> TRUE,
     message |-> "Falha ao interpretar o documento. Verifique se o arquivo está legível."]
\* the error generateContent rejected with, as processDocument catches it
LibraryError(reply) == [instanceOfError |-> TRUE, message |-> reply.message]

\* error?.status === 503 || error?.code === 503 || message.includes('overloaded')
\* of what the catch of part_002 caught: the rejection of generateContent,
\* the Error thrown for an empty text, or the SyntaxError of JSON.parse
IsOverloaded(reply) ==
    \/ reply.kind = "rejected" /\ (reply.status = 503 \/ reply.saysOverloaded)
    \/ reply.kind = "garbled" /\ reply.saysOverloaded

InService(t, svc) == t \in tasks /\ t.pc = "await" /\ t.svc = svc

\* fileToGenerativePart(file) resolves: reader.onloadend
FileRead(t) ==
    /\ InService(t, "read")
    /\ tasks' = (tasks \ {t}) \cup {[t EXCEPT !.svc = "call"]}
    /\ UNCHANGED <<darfs, nextFile, cardVars, uploaderVars>>

\* fileToGenerativePart(file) rejects: reader.onerror = reject
FileReadFails(t) ==
    /\ InService(t, "read")
    /\ ExtractionRejects(t, ReaderEvent)

\* ai.models.generateContent({...}) is called
GenerateContent(t) ==
    /\ InService(t, "call")
    /\ t.service = "part_002" => t.attempt < maxRetries
    /\ tasks' = (tasks \ {t}) \cup
                   {[t EXCEPT !.svc = "response", !.requests = @ + 1]}
    /\ UNCHANGED <<darfs, nextFile, cardVars, uploaderVars>>

\* geminiService.ts from the point generateContent settles
ReplyOnce(t, reply) ==
    CASE reply.kind = "rejected" -> ExtractionRejects(t, LibraryError(reply))
      [] reply.kind = "empty"    -> ExtractionRejects(t, EmptyResponseError)
      [] reply.kind = "garbled"  -> ExtractionRejects(t, ParseError)
      [] reply.kind = "json"     -> ExtractionResolves(t, reply.data)

\* part_002 from the point generateContent settles: the body of the try and
\* the catch of the while loop
ReplyRetrying(t, reply) ==
    IF reply.kind = "json"
    THEN ExtractionResolves(t, reply.data)
    ELSE LET attempt == t.attempt + 1
         IN  IF IsOverloaded(reply) /\ attempt < maxRetries
             THEN /\ tasks' = (tasks \ {t}) \cup
                                {[t EXCEPT !.svc = "backoff", !.attempt = attempt]}
                  /\ UNCHANGED <<darfs, nextFile, cardVars, uploaderVars>>
             ELSE IF IsOverloaded(reply)
             THEN ExtractionRejects(t, OverloadedError)
             ELSE ExtractionRejects(t, UnreadableError)

\* the generateContent call of t settles with reply
Reply(t, reply) ==
    /\ InService(t, "response")
    /\ IF t.service = "part_002" THEN ReplyRetrying(t, reply) ELSE ReplyOnce(t, reply)

\* await new Promise(resolve => setTimeout(resolve, 2000)); continue
BackoffEnds(t) ==
    /\ InService(t, "backoff")
    /\ tasks' = (tasks \ {t}) \cup {[t EXCEPT !.svc = "call"]}
    /\ UNCHANGED <<darfs, nextFile, cardVars, uploaderVars>>

(***************************************************************************)
(* Strings.                                                                *)
(***************************************************************************)
DigitChars == <<"0","1","2","3","4","5","6","7","8","9">>
IsDigit(c)  == \E d \in 1..10 : DigitChars[d] = c
DigitVal(c) == (CHOOSE d \in 1..10 : DigitChars[d] = c) - 1
DigitChar(d) == DigitChars[d + 1]

\* s.replace(/\D/g, '') and s.replace(/[^\d]/g, '')
StripNonDigits(s) == SelectSeq(s, IsDigit)

\* mutant: s.replace('.', ''), the first period only
RemoveDots_FirstOnly(s) ==
    IF \E i \in DOMAIN s : s[i] = "."
    THEN LET k == CHOOSE i \in DOMAIN s :
                     s[i] = "." /\ \A j \in 1..(i - 1) : s[j] # "."
         IN  SubSeq(s, 1, k - 1) \o SubSeq(s, k + 1, Len(s))
    ELSE s

\* s.replace(/\./g, '')
RemoveDots(s) == SelectSeq(s, LAMBDA c : c # ".")

\* s.replace(',', '.'): the first comma only
ReplaceFirstComma(s) ==
    IF \E i \in DOMAIN s : s[i] = ","
    THEN LET k == CHOOSE i \in DOMAIN s :
                     s[i] = "," /\ \A j \in 1..(i - 1) : s[j] # ","
         IN  [i \in DOMAIN s |-> IF i = k THEN "." ELSE s[i]]
    ELSE s

UpperChars == <<"C","D","I","N","P","V">>
LowerChars == <<"c","d","i","n","p","v">>
LowerChar(c) ==
    IF \E k \in DOMAIN UpperChars : UpperChars[k] = c
    THEN LowerChars[CHOOSE k \in DOMAIN UpperChars : UpperChars[k] = c]
    ELSE c
\* s.toLowerCase()
ToLowerCase(s) == [i \in DOMAIN s |-> LowerChar(s[i])]

\* s.includes(sub)
Includes(s, sub) ==
    \E i \in 1..(Len(s) - Len(sub) + 1) : SubSeq(s, i, i + Len(sub) - 1) = sub

RECURSIVE ParseDigits(_, _)
ParseDigits(s, acc) ==
    IF s = <<>> THEN acc ELSE ParseDigits(Tail(s), 10 * acc + DigitVal(Head(s)))
\* parseInt(s) of a nonempty string of digits
ParseInt(s) == ParseDigits(s, 0)

RECURSIVE IntDigits(_)
\* the decimal digits of n >= 0
IntDigits(n) ==
    IF n < 10 THEN <<DigitChar(n)>> ELSE Append(IntDigits(n \div 10), DigitChar(n % 10))

RECURSIVE Grouped(_)
\* pt-BR grouping: a period before every group of three digits
Grouped(ds) ==
    IF Len(ds) <= 3 THEN ds
    ELSE Grouped(SubSeq(ds, 1, Len(ds) - 3)) \o <<".">> \o SubSeq(ds, Len(ds) - 2, Len(ds))

\* (cents / 100).toLocaleString('pt-BR', {minimumFractionDigits: 2, maximumFractionDigits: 2})
ToLocaleStringPtBR(cents) ==
    Grouped(IntDigits(cents \div 100)) \o <<",">> \o
        <<DigitChar((cents % 100) \div 10), DigitChar(cents % 10)>>

\* the longest prefix of s made of digits
RECURSIVE DigitPrefix(_)
DigitPrefix(s) ==
    IF s # <<>> /\ IsDigit(Head(s)) THEN <<Head(s)>> \o DigitPrefix(Tail(s)) ELSE <<>>

\* parseFloat(s) for an unsigned decimal literal, in cents; fraction digits after
\* the second are dropped (the field never holds more than two).
ParseFloat(s) ==
    LET int  == DigitPrefix(s)
        rest == SubSeq(s, Len(int) + 1, Len(s))
        frac == IF rest # <<>> /\ Head(rest) = "." THEN DigitPrefix(Tail(rest)) ELSE <<>>
        f2   == SubSeq(frac \o <<"0","0">>, 1, 2)
    IN  IF int = <<>> /\ frac = <<>>
        THEN [isNaN |-> TRUE]
        ELSE [isNaN |-> FALSE,
              cents |-> 100 * ParseDigits(int, 0) + ParseDigits(f2, 0)]

(***************************************************************************)
(* DarfCard.tsx: the card of one document.  The card modelled is the one   *)
(* of darfs[0].                                                            *)
(***************************************************************************)
RETENTION_CODES == {<<"5","9","5","2">>, <<"0","5","6","1">>, <<"1","0","6","2">>}
Individ == <<"i","n","d","i","v","i","d">>

darfDoc == darfs[1]

\* isSuccess && result: the panel and the table are rendered
PanelShown ==
    /\ Len(darfs) >= 1
    /\ darfDoc.status = "SUCCESS"
    /\ Has(darfDoc, "result")

(***************************************************************************)
(* Amounts are JavaScript numbers.  The double nearest to k cents, for     *)
(* k = 0 or k >= 4, is (k * 2^57 - DoubleErr(k)) / (100 * 2^57): its       *)
(* mantissa is k * 2^s / 100 rounded to an integer, s = 57 - Binade(32k).  *)
(***************************************************************************)
RECURSIVE Pow2Mod100(_)
Pow2Mod100(s) == IF s = 0 THEN 1 ELSE (2 * Pow2Mod100(s - 1)) % 100

RECURSIVE Binade(_)
\* the j with 100 * 2^j <= n < 200 * 2^j, for n >= 100
Binade(n) == IF n < 200 THEN 0 ELSE 1 + Binade(n \div 2)

DoubleErr(k) ==
    IF k = 0 THEN 0
    ELSE LET j   == Binade(32 * k)
             rem == ((k % 100) * Pow2Mod100(57 - j)) % 100
             r   == IF rem < 50 THEN rem ELSE rem - 100
         IN  r * (2 ^ j)

\* difference < 0.05, difference = Math.abs(headerTotal - calculatedTotal):
\* the subtraction of two doubles less than 0.0625 apart is exact, so the
\* test compares (d * 2^57 - e) with (5 * 2^57 - DoubleErr(5)), d the
\* difference in cents and e that of the two rounding errors.
DifferenceBelowTolerance(headerTotal, calculatedTotal) ==
    LET d0  == headerTotal - calculatedTotal
        e0  == DoubleErr(headerTotal) - DoubleErr(calculatedTotal)
        neg == d0 < 0 \/ (d0 = 0 /\ e0 > 0)
        d   == IF neg THEN 0 - d0 ELSE d0
        e   == IF neg THEN 0 - e0 ELSE e0
    IN  d < 5 \/ (d = 5 /\ e > DoubleErr(5))

\* isMatch of a document; the difference is 0 unless the document is a
\* Success with a result and a calculatedTotal
IsMatch(doc) ==
    IF doc.status = "SUCCESS" /\ Has(doc, "result") /\ Has(doc, "calculatedTotal")
    THEN DifferenceBelowTolerance(doc.result.headerTotal, doc.calculatedTotal)
    ELSE TRUE

\* item.description || ''
DescriptionOf(item) == IF Has(item, "description") THEN item.description ELSE <<>>

\* RETENTION_CODES.includes(item.code.replace(/[^\d]/g, ''))
IsRetention(item) == StripNonDigits(item.code) \in RETENTION_CODES

EmptyCategories ==
    [baseFuncionarios |-> 0, baseIndividuais |-> 0, itemsFuncIndices |-> {},
     itemsIndivIndices |-> {}, itemsRetIndices |-> {}]

\* mutant: the description test made on its own, not as the else of the code test
CategorizeItem_NoElse(acc, item, idx) ==
    LET desc == ToLowerCase(DescriptionOf(item))
        code == StripNonDigits(item.code)
        ret  == IF code \in RETENTION_CODES
                THEN [acc EXCEPT !.itemsRetIndices = @ \cup {idx}]
                ELSE acc
    IN  IF Includes(desc, Individ)
        THEN [ret EXCEPT !.baseIndividuais = @ + item.total,
                         !.itemsIndivIndices = @ \cup {idx}]
        ELSE IF code \in RETENTION_CODES THEN ret
        ELSE [ret EXCEPT !.baseFuncionarios = @ + item.total,
                         !.itemsFuncIndices = @ \cup {idx}]

\* mutant: the description tested before the code
CategorizeItem_DescriptionFirst(acc, item, idx) ==
    LET desc == ToLowerCase(DescriptionOf(item))
        code == StripNonDigits(item.code)
    IN  IF Includes(desc, Individ)
        THEN [acc EXCEPT !.baseIndividuais = @ + item.total,
                         !.itemsIndivIndices = @ \cup {idx}]
        ELSE IF code \in RETENTION_CODES
        THEN [acc EXCEPT !.itemsRetIndices = @ \cup {idx}]
        ELSE [acc EXCEPT !.baseFuncionarios = @ + item.total,
                         !.itemsFuncIndices = @ \cup {idx}]

\* mutant: the description tested as written, not lowercased
CategorizeItem_CaseSensitive(acc, item, idx) ==
    LET desc == DescriptionOf(item)
        code == StripNonDigits(item.code)
    IN  IF code \in RETENTION_CODES
        THEN [acc EXCEPT !.itemsRetIndices = @ \cup {idx}]
        ELSE IF Includes(desc, Individ)
        THEN [acc EXCEPT !.baseIndividuais = @ + item.total,
                         !.itemsIndivIndices = @ \cup {idx}]
        ELSE [acc EXCEPT !.baseFuncionarios = @ + item.total,
                         !.itemsFuncIndices = @ \cup {idx}]

\* the body of result.items.forEach((item, idx) => ...)
CategorizeItem(acc, item, idx) ==
    LET desc == ToLowerCase(DescriptionOf(item))
        code == StripNonDigits(item.code)
    IN  IF code \in RETENTION_CODES
        THEN [acc EXCEPT !.itemsRetIndices = @ \cup {idx}]
        ELSE IF Includes(desc, Individ)
        THEN [acc EXCEPT !.baseIndividuais = @ + item.total,
                         !.itemsIndivIndices = @ \cup {idx}]
        ELSE [acc EXCEPT !.baseFuncionarios = @ + item.total,
                         !.itemsFuncIndices = @ \cup {idx}]

RECURSIVE ForEachItem(_, _, _)
ForEachItem(items, idx, acc) ==
    IF idx >= Len(items) THEN acc
    ELSE ForEachItem(items, idx + 1, CategorizeItem(acc, items[idx + 1], idx))

\* categorizedData = useMemo(...) of a document
CategorizedData(doc) ==
    IF ~Has(doc, "result") THEN EmptyCategories
    ELSE ForEachItem(doc.result.items, 0, EmptyCategories)

\* irValueNumber = useMemo(...) of the field's text
IrValueNumber(text) ==
    IF text = <<>> THEN 0
    ELSE LET num == ParseFloat(ReplaceFirstComma(RemoveDots(text)))
         IN  IF num.isNaN THEN 0 ELSE num.cents

Max(a, b) == IF a >= b THEN a ELSE b

\* mutant: the subtraction without its floor
FinalValue_NoFloor(mode, cat, ir) ==
    IF mode = "funcionarios"
    THEN cat.baseFuncionarios - ir
    ELSE cat.baseIndividuais + ir

\* finalValue = useMemo(...)
FinalValue(mode, cat, ir) ==
    IF mode = "funcionarios"
    THEN Max(0, cat.baseFuncionarios - ir)
    ELSE cat.baseIndividuais + ir

isMatch         == IsMatch(darfDoc)
categorizedData == CategorizedData(darfDoc)
irValueNumber   == IrValueNumber(irInputValue)
finalValue      == FinalValue(calcMode, categorizedData, irValueNumber)

\* the masking of handleIrChange: what is stored for the raw text of the field
MaskIr(raw) ==
    LET value == StripNonDigits(raw)
    IN  IF value # <<>> THEN ToLocaleStringPtBR(ParseInt(value)) ELSE value

\* What the field's raw text can be after one edit of the text shown: a key
\* appended, the last character deleted, everything deleted.
Keys == {"0", "5", "x"}
Edits(text) ==
    {Append(text, k) : k \in Keys}
        \cup (IF text # <<>> THEN {SubSeq(text, 1, Len(text) - 1), <<>>} ELSE {})

\* the number of digits of the amount typed, leading zeros apart
SignificantDigits(raw) ==
    IF StripNonDigits(raw) = <<>> THEN 0
    ELSE Len(IntDigits(ParseInt(StripNonDigits(raw))))

\* handleIrChange(e), e.target.value = raw
HandleIrChangeValue(raw) ==
    /\ PanelShown
    /\ irInputValue' = MaskIr(raw)
    /\ copyStage' = IF copyStage # "idle" THEN "idle" ELSE copyStage
    /\ UNCHANGED <<appVars, uploaderVars, consoleError, calcMode, feedbackMessage, copiedRowIndex, irFocused,
                   clipboard, writes, copyTimers, rowTimers, noCopySinceMode>>

\* handleIrChange on an edit of the field, amounts of up to MaxDigits digits
HandleIrChange(raw) ==
    /\ raw \in Edits(irInputValue)
    /\ SignificantDigits(raw) <= MaxDigits
    /\ HandleIrChangeValue(raw)

\* Longer amounts, typed with the keys 0, 1 and a letter.
LongKeys == {"0", "1", "x"}
LongEdits(text) ==
    {Append(text, k) : k \in LongKeys}
        \cup (IF text # <<>> THEN {SubSeq(text, 1, Len(text) - 1), <<>>} ELSE {})

RECURSIVE StripLeadingZeros(_)
StripLeadingZeros(ds) ==
    IF ds # <<>> /\ Head(ds) = "0" THEN StripLeadingZeros(Tail(ds)) ELSE ds

\* handleIrChange on an edit of the field, amounts of up to MaskDigits digits
HandleIrChangeLong(raw) ==
    /\ raw \in LongEdits(irInputValue)
    /\ Len(StripLeadingZeros(StripNonDigits(raw))) <= MaskDigits
    /\ HandleIrChangeValue(raw)

PanelWrite(text) == [kind |-> "panel", text |-> text]
RowWrite(text, idx) == [kind |-> "row", text |-> text, idx |-> idx]

\* mutant: the text copied is that of the employee sum whatever the mode
PerformCopy_IgnoresMode ==
    /\ BagCardinality(writes) < MaxWrites
    /\ writes' = writes (+) SetToBag({[kind |-> "panel",
            text |-> ToLocaleStringPtBR(Max(0, categorizedData.baseFuncionarios - irValueNumber))]})

\* performCopy() up to its await: the writeText call is made with the text of
\* the final value of this render
PerformCopy ==
    /\ BagCardinality(writes) < MaxWrites
    /\ writes' = writes (+) SetToBag({PanelWrite(ToLocaleStringPtBR(finalValue))})

\* mutant: the copy always asks for confirmation first
InitiateCopy_AlwaysVerifies ==
    /\ PanelShown
    /\ copyStage = "idle"
    /\ copyStage' = "verifying"
    /\ feedbackMessage' = ""
    /\ noCopySinceMode' = FALSE
    /\ UNCHANGED <<appVars, uploaderVars, consoleError, calcMode, irInputValue, copiedRowIndex, irFocused,
                   clipboard, writes, copyTimers, rowTimers>>

\* initiateCopy(), the button rendered while copyStage is idle
InitiateCopy ==
    /\ PanelShown
    /\ copyStage = "idle"
    /\ IF irValueNumber > 0
       THEN /\ PerformCopy
            /\ UNCHANGED <<copyStage, feedbackMessage>>
       ELSE /\ copyStage' = "verifying"
            /\ feedbackMessage' = ""
            /\ UNCHANGED writes
    /\ noCopySinceMode' = FALSE
    /\ UNCHANGED <<appVars, uploaderVars, consoleError, calcMode, irInputValue, copiedRowIndex, irFocused,
                   clipboard, copyTimers, rowTimers>>

\* mutant: the validation branch without its return
HandleConfirmCopy_NoReturn(hasIr) ==
    /\ PanelShown
    /\ copyStage = "verifying"
    /\ IF hasIr /\ irValueNumber <= 0
       THEN /\ feedbackMessage' = "Digite o valor do IR antes de copiar."
            /\ irFocused' = TRUE
       ELSE UNCHANGED <<feedbackMessage, irFocused>>
    /\ PerformCopy
    /\ UNCHANGED <<appVars, uploaderVars, consoleError, calcMode, irInputValue, copyStage, copiedRowIndex,
                   clipboard, copyTimers, rowTimers, noCopySinceMode>>

\* handleConfirmCopy(hasIr), the buttons rendered while copyStage is verifying
HandleConfirmCopy(hasIr) ==
    /\ PanelShown
    /\ copyStage = "verifying"
    /\ IF hasIr /\ irValueNumber <= 0
       THEN /\ feedbackMessage' = "Digite o valor do IR antes de copiar."
            /\ irFocused' = TRUE
            /\ UNCHANGED writes
       ELSE /\ PerformCopy
            /\ UNCHANGED <<feedbackMessage, irFocused>>
    /\ UNCHANGED <<appVars, uploaderVars, consoleError, calcMode, irInputValue, copyStage, copiedRowIndex,
                   clipboard, copyTimers, rowTimers, noCopySinceMode>>

\* mutant: the row button rendered in every row
HandleCopyRowValue_AnyRow(idx) ==
    /\ PanelShown
    /\ idx \in 0..(Len(darfDoc.result.items) - 1)
    /\ BagCardinality(writes) < MaxWrites
    /\ writes' = writes (+)
         SetToBag({RowWrite(ToLocaleStringPtBR(darfDoc.result.items[idx + 1].total), idx)})
    /\ UNCHANGED <<appVars, uploaderVars, consoleError, calcMode, irInputValue, copyStage, feedbackMessage,
                   copiedRowIndex, irFocused, clipboard, copyTimers, rowTimers,
                   noCopySinceMode>>

\* handleCopyRowValue(item.total, idx) up to its await; the button is rendered
\* in the rows with isRetention
HandleCopyRowValue(idx) ==
    /\ PanelShown
    /\ idx \in 0..(Len(darfDoc.result.items) - 1)
    /\ IsRetention(darfDoc.result.items[idx + 1])
    /\ BagCardinality(writes) < MaxWrites
    /\ writes' = writes (+)
         SetToBag({RowWrite(ToLocaleStringPtBR(darfDoc.result.items[idx + 1].total), idx)})
    /\ UNCHANGED <<appVars, uploaderVars, consoleError, calcMode, irInputValue, copyStage, feedbackMessage,
                   copiedRowIndex, irFocused, clipboard, copyTimers, rowTimers,
                   noCopySinceMode>>

\* mutant: the acknowledgment is set and its timer never scheduled
WriteResolves_NoTimer(w) ==
    /\ BagIn(w, writes)
    /\ writes' = writes (-) SetToBag({w})
    /\ clipboard' = w.text
    /\ IF w.kind = "panel"
       THEN /\ copyStage' = "copied"
            /\ UNCHANGED <<copiedRowIndex, rowTimers, copyTimers>>
       ELSE /\ rowTimers < MaxTimers
            /\ copiedRowIndex' = <<w.idx>>
            /\ rowTimers' = rowTimers + 1
            /\ UNCHANGED <<copyStage, copyTimers>>
    /\ UNCHANGED <<appVars, uploaderVars, consoleError, calcMode, irInputValue, feedbackMessage, irFocused,
                   noCopySinceMode>>

\* writeText resolved: the clipboard holds the text, and the rest of the try
\* block of performCopy / handleCopyRowValue runs
WriteResolves(w) ==
    /\ BagIn(w, writes)
    /\ writes' = writes (-) SetToBag({w})
    /\ clipboard' = w.text
    /\ IF w.kind = "panel"
       THEN /\ copyTimers < MaxTimers
            /\ copyStage' = "copied"
            /\ copyTimers' = copyTimers + 1
            /\ UNCHANGED <<copiedRowIndex, rowTimers>>
       ELSE /\ rowTimers < MaxTimers
            /\ copiedRowIndex' = <<w.idx>>
            /\ rowTimers' = rowTimers + 1
            /\ UNCHANGED <<copyStage, copyTimers>>
    /\ UNCHANGED <<appVars, uploaderVars, consoleError, calcMode, irInputValue, feedbackMessage, irFocused,
                   noCopySinceMode>>

\* mutant: the acknowledgment set after the try block, not inside it
WriteRejects_Acknowledges(w) ==
    /\ BagIn(w, writes)
    /\ writes' = writes (-) SetToBag({w})
    /\ consoleError' = IF w.kind = "panel" THEN "Failed to copy" ELSE "Failed to copy row"
    /\ IF w.kind = "panel"
       THEN /\ copyTimers < MaxTimers
            /\ copyStage' = "copied"
            /\ copyTimers' = copyTimers + 1
            /\ UNCHANGED <<copiedRowIndex, rowTimers>>
       ELSE /\ rowTimers < MaxTimers
            /\ copiedRowIndex' = <<w.idx>>
            /\ rowTimers' = rowTimers + 1
            /\ UNCHANGED <<copyStage, copyTimers>>
    /\ UNCHANGED <<appVars, uploaderVars, calcMode, irInputValue, feedbackMessage, irFocused,
                   clipboard, noCopySinceMode>>

\* writeText rejected: the catch block logs and nothing else
WriteRejects(w) ==
    /\ BagIn(w, writes)
    /\ writes' = writes (-) SetToBag({w})
    /\ consoleError' = IF w.kind = "panel" THEN "Failed to copy" ELSE "Failed to copy row"
    /\ UNCHANGED <<appVars, uploaderVars, calcMode, irInputValue, copyStage, feedbackMessage,
                   copiedRowIndex, irFocused, clipboard, copyTimers, rowTimers,
                   noCopySinceMode>>

\* setTimeout(() => setCopyStage('idle'), 2500)
CopyTimerFires ==
    /\ copyTimers > 0
    /\ copyTimers' = copyTimers - 1
    /\ copyStage' = "idle"
    /\ UNCHANGED <<appVars, uploaderVars, consoleError, calcMode, irInputValue, feedbackMessage, copiedRowIndex,
                   irFocused, clipboard, writes, rowTimers, noCopySinceMode>>

\* setTimeout(() => setCopiedRowIndex(null), 2000)
RowTimerFires ==
    /\ rowTimers > 0
    /\ rowTimers' = rowTimers - 1
    /\ copiedRowIndex' = <<>>
    /\ UNCHANGED <<appVars, uploaderVars, consoleError, calcMode, irInputValue, copyStage, feedbackMessage,
                   irFocused, clipboard, writes, copyTimers, noCopySinceMode>>

\* onClick={() => { setCalcMode(mode); setCopyStage('idle'); }}
SelectMode(mode) ==
    /\ PanelShown
    /\ calcMode' = mode
    /\ copyStage' = "idle"
    /\ noCopySinceMode' = TRUE
    /\ UNCHANGED <<appVars, uploaderVars, consoleError, irInputValue, feedbackMessage, copiedRowIndex, irFocused,
                   clipboard, writes, copyTimers, rowTimers>>

(***************************************************************************)
(* Results shown by the card.                                              *)
(***************************************************************************)
CardEmployee   == [code |-> <<"1","0","8","2">>, description |-> <<"C","P">>,
                   principal |-> 3, multa |-> 0, juros |-> 0, total |-> 3]
CardIndividual == [code |-> <<"1","0","9","9">>,
                   description |-> <<"C","P"," ","I","N","D","I","V","I","D">>,
                   principal |-> 20, multa |-> 0, juros |-> 0, total |-> 20]
CardRetention  == [code |-> <<"0","5","-","6","1">>,
                   description |-> <<"i","n","d","i","v","i","d">>,
                   principal |-> 123456, multa |-> 0, juros |-> 0, total |-> 123456]
CardNoDesc     == [code |-> <<"1","1","3","8">>,
                   principal |-> 7, multa |-> 0, juros |-> 0, total |-> 7]
CardResults ==
    {[headerTotal |-> 123479, items |-> <<CardEmployee, CardIndividual, CardRetention>>],
     [headerTotal |-> 7, items |-> <<CardNoDesc>>],
     [headerTotal |-> 0, items |-> <<>>]}

(***************************************************************************)
(* Results for the derived values of the card (categorizedData, isMatch,   *)
(* finalValue): every list of up to MaxItems items over a set of codes and *)
(* descriptions, each item with a total of its own.                        *)
(***************************************************************************)
PanelCodes ==
    <<(<<"1","0","8","2">>), (<<"1","0","6","2","0">>), (<<"5","9","5","2">>),
      (<<"0","5","-","6","1">>), (<<"1","0","6","2">>)>>
\* a description, or none
PanelDescriptions ==
    <<[code |-> <<>>],
      [code |-> <<>>, description |-> <<"C","P">>],
      [code |-> <<>>, description |-> <<"C","P"," ","I","N","D","I","V","I","D">>]>>

PanelItem(c, d) ==
    LET t == 3 * (c - 1) + d
    IN  Spread(PanelDescriptions[d],
               [code |-> PanelCodes[c], principal |-> t, multa |-> 0,
                juros |-> 0, total |-> t])
PanelItems == {PanelItem(c, d) : c \in DOMAIN PanelCodes, d \in DOMAIN PanelDescriptions}
PanelItemLists == UNION {[1..k -> PanelItems] : k \in 0..MaxItems}
PanelResults == {[headerTotal |-> 0, items |-> its] : its \in PanelItemLists}

(***************************************************************************)
(* Results for the reconciliation: a declared total against one item (or   *)
(* none), so that calculatedTotal is 0 + total, the item's own double.     *)
(***************************************************************************)
MatchAmounts == {0} \cup 4..24
MatchItem(total) ==
    [code |-> <<"1","0","8","2">>, description |-> <<"C","P">>,
     principal |-> total, multa |-> 0, juros |-> 0, total |-> total]
MatchResults ==
    {[headerTotal |-> h, items |-> IF c = 0 THEN <<>> ELSE <<MatchItem(c)>>] :
        h \in MatchAmounts, c \in MatchAmounts}

(***************************************************************************)
(* Specifications.                                                         *)
(***************************************************************************)
ClipboardBefore == <<"?">>      \* whatever the clipboard held before

CardInit ==
    /\ calcMode = "funcionarios"
    /\ irInputValue = <<>>
    /\ copyStage = "idle"
    /\ feedbackMessage = ""
    /\ copiedRowIndex = <<>>
    /\ irFocused = FALSE
    /\ clipboard = ClipboardBefore
    /\ writes = EmptyBag
    /\ copyTimers = 0
    /\ rowTimers = 0
    /\ noCopySinceMode = FALSE
    /\ consoleError = ""

\* App renders <FileUploader onFilesSelected={handleFilesSelected} />
UploaderInit ==
    /\ isDragging = FALSE
    /\ disabled = FALSE
    /\ fileType = <<>>
    /\ passed = <<>>

\* The orchestrator, from the mounting of App.
Init ==
    /\ darfs = <<>>
    /\ tasks = {}
    /\ nextFile = 1
    /\ CardInit
    /\ UploaderInit

Next ==
    \/ \E n \in 1..MaxBatch : \E ids \in [1..n -> Ids] : HandleFilesSelected(n, ids)
    \/ \E t \in tasks : TimerCallback(t)
    \/ \E t \in tasks : \E res \in AppResults : ExtractionResolves(t, res)
    \/ \E t \in tasks : \E err \in Rejections : ExtractionRejects(t, err)
    \/ ClearAll

Spec == Init /\ [][Next]_vars

\* The card of a document that reached Success, from its first render with
\* the panel shown.
InitCard ==
    /\ \E res \in CardResults :
          darfs = SuccessUpdater(ProcessingUpdater(NewDocs(<<1>>, <<1>>), 1),
                                 1, res, CalculatedTotal(res))
    /\ tasks = {[id |-> 1, file |-> 1, pc |-> "success"]}
    /\ nextFile = 2
    /\ CardInit
    /\ UploaderInit

NextCard ==
    \/ \E raw \in Edits(irInputValue) : HandleIrChange(raw)
    \/ InitiateCopy
    \/ \E hasIr \in BOOLEAN : HandleConfirmCopy(hasIr)
    \/ \E idx \in 0..(MaxItems + 1) : HandleCopyRowValue(idx)
    \/ \E w \in BagToSet(writes) : WriteResolves(w)
    \/ \E w \in BagToSet(writes) : WriteRejects(w)
    \/ CopyTimerFires
    \/ RowTimerFires
    \/ \E mode \in {"funcionarios", "individuais"} : SelectMode(mode)

SpecCard == InitCard /\ [][NextCard]_vars

\* The derived values of a card, over the results of PanelResults: the mode
\* and the withholding change, the memoized values follow.
InitPanel ==
    /\ \E res \in PanelResults :
          darfs = SuccessUpdater(ProcessingUpdater(NewDocs(<<1>>, <<1>>), 1),
                                 1, res, CalculatedTotal(res))
    /\ tasks = {[id |-> 1, file |-> 1, pc |-> "success"]}
    /\ nextFile = 2
    /\ CardInit
    /\ UploaderInit

NextPanel ==
    \/ \E raw \in Edits(irInputValue) : HandleIrChange(raw)
    \/ \E mode \in {"funcionarios", "individuais"} : SelectMode(mode)

SpecPanel == InitPanel /\ [][NextPanel]_vars

\* The reconciliation flag of a card, over the results of MatchResults.
InitMatch ==
    /\ \E res \in MatchResults :
          darfs = SuccessUpdater(ProcessingUpdater(NewDocs(<<1>>, <<1>>), 1),
                                 1, res, CalculatedTotal(res))
    /\ tasks = {[id |-> 1, file |-> 1, pc |-> "success"]}
    /\ nextFile = 2
    /\ CardInit
    /\ UploaderInit

SpecMatch == InitMatch /\ [][NextPanel]_vars

\* The withholding field of a card, typed into at length.
NextMask == \E raw \in LongEdits(irInputValue) : HandleIrChangeLong(raw)

SpecMask == InitCard /\ [][NextMask]_vars

\* The extraction calls of the files of one selection, from the moment every
\* document of it is Processing and its analyzeDarfDocument call has begun.
RECURSIVE AllProcessing(_, _)
AllProcessing(docs, n) ==
    IF n = 0 THEN docs ELSE ProcessingUpdater(AllProcessing(docs, n - 1), n)

InitService ==
    /\ \E n \in 1..MaxBatch : \E v \in ServiceVariants :
          /\ darfs = AllProcessing(
                        PrependUpdater(NewDocs([i \in 1..n |-> i], [i \in 1..n |-> i]), <<>>), n)
          /\ tasks = {[id |-> i, file |-> i, pc |-> "await", svc |-> "read",
                       attempt |-> 0, requests |-> 0, service |-> v] : i \in 1..n}
          /\ nextFile = n + 1
    /\ CardInit
    /\ UploaderInit

NextService ==
    \/ \E t \in tasks : FileRead(t)
    \/ \E t \in tasks : FileReadFails(t)
    \/ \E t \in tasks : GenerateContent(t)
    \/ \E t \in tasks : \E reply \in Replies : Reply(t, reply)
    \/ \E t \in tasks : BackoffEnds(t)

SpecService == InitService /\ [][NextService]_vars

\* The extraction calls with every pending step taken in the end.
SpecServiceLive == SpecService /\ WF_vars(NextService)

\* The card with its timers: a callback handed to setTimeout is run by the
\* event loop once its delay has passed, whatever else happens.
SpecCardLive ==
    SpecCard /\ WF_vars(CopyTimerFires) /\ WF_vars(RowTimerFires)

\* The uploader alone, enabled or disabled, its callback being the
\* orchestrator's handleFilesSelected.
InitUploader ==
    /\ darfs = <<>>
    /\ tasks = {}
    /\ nextFile = 1
    /\ CardInit
    /\ isDragging = FALSE
    /\ disabled \in BOOLEAN
    /\ fileType = <<>>
    /\ passed = <<>>

NextUploader ==
    \/ handleDragOver
    \/ handleDragLeave
    \/ \E types \in TypeLists : handleDrop(types)
    \/ \E types \in TypeLists : handleFileInput(types)

SpecUploader == InitUploader /\ [][NextUploader]_vars

(***************************************************************************)
(* Properties of the orchestrator (checked under Spec).                    *)
(***************************************************************************)
DocOfFile(ds, f) == ds[CHOOSE i \in DOMAIN ds : ds[i].file = f]
TaskOfFile(ts, f) == CHOOSE t \in ts : t.file = f
Settled == {"success", "failure"}

\* processDocument of task t left its await in this step
Completes(t) ==
    /\ t \in tasks /\ t.pc = "await"
    /\ TaskOfFile(tasks', t.file).pc \in Settled

\* C1: documents are processed independently: a listed document whose own
\* extraction succeeded has status SUCCESS whatever happened to the other
\* extractions, and a document has status ERROR only if its own extraction
\* failed.
C1_Independent ==
    \A i \in DOMAIN darfs :
        LET t == TaskOfFile(tasks, darfs[i].file)
        IN  /\ t.pc = "success" => darfs[i].status = "SUCCESS"
            /\ darfs[i].status = "ERROR" => t.pc = "failure"

C3_ProcessingFirst ==
    [][/\ \A t \in tasks' : (t.pc = "await" /\ \E i \in DOMAIN darfs' : darfs'[i].file = t.file)
              => DocOfFile(darfs', t.file).status # "PENDING"
       /\ \A i \in DOMAIN darfs : \A j \in DOMAIN darfs' :
              (/\ darfs'[j].file = darfs[i].file
               /\ darfs'[j].status \in {"SUCCESS", "ERROR"}
               /\ darfs[i].status \notin {"SUCCESS", "ERROR"})
              => darfs[i].status = "PROCESSING"]_vars

\* C4: a selection of n files puts n documents in front of the list, one per
\* file in file order, each PENDING with an id and nothing else stored, and
\* the documents already listed follow unchanged in their order.
C4_PrependsPending ==
    [][nextFile' # nextFile =>
          LET n == nextFile' - nextFile
          IN  /\ n >= 1
              /\ Len(darfs') = Len(darfs) + n
              /\ \A i \in 1..n :
                    /\ darfs'[i].file = nextFile + i - 1
                    /\ darfs'[i].status = "PENDING"
                    /\ darfs'[i].id \in Ids
                    /\ DOMAIN darfs'[i] = {"id", "file", "fileName", "status"}
              /\ \A i \in DOMAIN darfs : darfs'[n + i] = darfs[i]]_vars

\* C4 witness: a fresh PENDING document sits in front of a document selected
\* earlier and already past PENDING.
C4_Witness ==
    /\ Len(darfs) >= 2
    /\ darfs[1].status = "PENDING"
    /\ darfs[2].status # "PENDING"
    /\ darfs[1].file > darfs[2].file

RECURSIVE SumOfTotals(_)
\* the sum of total over all items, taken from the last item backwards
SumOfTotals(items) ==
    IF Len(items) = 0 THEN 0
    ELSE items[Len(items)].total + SumOfTotals(SubSeq(items, 1, Len(items) - 1))

\* C5: when the extraction of a document returns a result with items, the
\* document has status SUCCESS, that result, and calculatedTotal equal to the
\* sum of total over all its items, whatever their category.
C5_SuccessStoresSum ==
    [][\A t \in tasks : \A res \in WellFormedResults :
          ExtractionResolves(t, res) =>
              \A i \in DOMAIN darfs' :
                  (darfs'[i].file = t.file \/ darfs'[i].id = t.id) =>
                      /\ darfs'[i].status = "SUCCESS"
                      /\ darfs'[i].result = res
                      /\ darfs'[i].calculatedTotal = SumOfTotals(res.items)]_vars

\* C5 witness: a SUCCESS document whose two items include a retention item.
C5_Witness ==
    \E i \in DOMAIN darfs :
        /\ darfs[i].status = "SUCCESS"
        /\ Len(darfs[i].result.items) = 2
        /\ \E k \in 1..2 : IsRetention(darfs[i].result.items[k])
        /\ darfs[i].calculatedTotal = 3

\* the message the catch block stores for task t when it fails in this step
FailureOf(t, err) ==
    \/ ExtractionRejects(t, err)
    \/ err = FoldTypeError /\ ExtractionResolves(t, NoItemsResult)

\* C6: when the extraction of a document fails, the document has status ERROR
\* and the message of the error ('Erro desconhecido' when what was thrown is
\* not an Error), and neither result nor calculatedTotal.
C6_FailureStoresMessage ==
    [][\A t \in tasks : \A err \in Rejections \cup {FoldTypeError} :
          FailureOf(t, err) =>
              \A i \in DOMAIN darfs' : darfs'[i].file = t.file =>
                  /\ darfs'[i].status = "ERROR"
                  /\ darfs'[i].errorMessage =
                        (IF err = ReaderEvent THEN "Erro desconhecido" ELSE err.message)
                  /\ ~Has(darfs'[i], "result")
                  /\ ~Has(darfs'[i], "calculatedTotal")]_vars

(***************************************************************************)
(* Properties of the card (checked under SpecCard).                        *)
(***************************************************************************)
PanelWrites == {w \in BagToSet(writes) : w.kind = "panel"}

\* the sum of the category the active mode works on, no withholding applied
ActiveSum ==
    IF calcMode = "funcionarios"
    THEN categorizedData.baseFuncionarios
    ELSE categorizedData.baseIndividuais

\* C7: a copy initiated with a withholding above zero makes the clipboard write
\* of the final value in that same step, and the stage does not become
\* verifying.
C7_CopiesImmediately ==
    [][(InitiateCopy /\ irValueNumber > 0) =>
          /\ writes' = writes (+) SetToBag({PanelWrite(ToLocaleStringPtBR(finalValue))})
          /\ copyStage' = "idle"]_vars

\* C7 witness: the write of the withholding-adjusted final value is in flight
\* and the stage is idle.
C7_Witness ==
    /\ irValueNumber > 0
    /\ copyStage = "idle"
    /\ feedbackMessage = ""
    /\ calcMode = "individuais"
    /\ PanelWrite(ToLocaleStringPtBR(categorizedData.baseIndividuais + irValueNumber))
          \in PanelWrites
    /\ categorizedData.baseIndividuais > 0

\* C8: a copy initiated with a withholding of zero moves the stage to
\* verifying; confirming 'No' there writes the active mode's category sum with
\* no withholding applied; a panel write that succeeds leaves that text in the
\* clipboard and the stage at copied.
C8_NoCopiesUnadjusted ==
    [][/\ (InitiateCopy /\ irValueNumber = 0) =>
              (copyStage' = "verifying" /\ writes' = writes)
       /\ HandleConfirmCopy(FALSE) =>
              writes' = writes (+) SetToBag({PanelWrite(ToLocaleStringPtBR(ActiveSum))})
       /\ \A w \in PanelWrites : WriteResolves(w) =>
              (copyStage' = "copied" /\ clipboard' = w.text)]_vars

\* C8 witness: after 'No' in individual mode the clipboard holds the text of
\* the individual sum and the stage is copied.
C8_Witness ==
    /\ copyStage = "copied"
    /\ calcMode = "individuais"
    /\ irValueNumber = 0
    /\ categorizedData.baseIndividuais > 0
    /\ clipboard = ToLocaleStringPtBR(categorizedData.baseIndividuais)

\* C9: confirming 'Yes' while the withholding is zero sets the validation
\* message, makes no clipboard write and leaves the stage at verifying.
C9_YesWithoutAmount ==
    [][(HandleConfirmCopy(TRUE) /\ irValueNumber = 0) =>
          /\ feedbackMessage' = "Digite o valor do IR antes de copiar."
          /\ writes' = writes
          /\ clipboard' = clipboard
          /\ copyStage' = "verifying"]_vars

\* C9 witness: the validation message is shown in the verifying stage with
\* nothing written.
C9_Witness ==
    /\ copyStage = "verifying"
    /\ feedbackMessage = "Digite o valor do IR antes de copiar."
    /\ irValueNumber = 0
    /\ writes = EmptyBag
    /\ clipboard = ClipboardBefore

\* C10: once a mode button has been used, the stage is idle for as long as no
\* new copy is initiated: no verifying confirmation and no copied
\* acknowledgment.
C10_ModeLeavesIdle == noCopySinceMode => copyStage = "idle"

\* C11: a panel write that succeeds sets the stage to copied, and a stage of
\* copied always gives way to idle through the acknowledgment timer alone:
\* copied is never permanent.
C11_CopiedReverts ==
    /\ [][\A w \in PanelWrites : WriteResolves(w) => copyStage' = "copied"]_vars
    /\ (copyStage = "copied") ~> (copyStage = "idle")

\* C11 witness: the acknowledgment is shown and its timer is pending.
C11_Witness ==
    /\ copyStage = "copied"
    /\ copyTimers > 0
    /\ writes = EmptyBag
    /\ clipboard # ClipboardBefore

\* C20: a clipboard write that fails, from the panel or from a row, is logged
\* and changes nothing else: the stage stays what it was (it does not become
\* copied), no row is acknowledged, no validation message is set, and the
\* document list is the same.
C20_FailureOnlyLogged ==
    [][\A w \in BagToSet(writes) : WriteRejects(w) =>
          /\ copyStage' = copyStage
          /\ (copyStage # "copied" => copyStage' # "copied")
          /\ copiedRowIndex' = copiedRowIndex
          /\ feedbackMessage' = feedbackMessage
          /\ copyTimers' = copyTimers /\ rowTimers' = rowTimers
          /\ darfs' = darfs
          /\ consoleError' \in {"Failed to copy", "Failed to copy row"}]_vars

\* C20 witness: the last thing the card did was to log a failed panel copy
\* that 'No' had asked for: the stage is still verifying, nothing is
\* acknowledged and the clipboard holds what it held.
C20_Witness ==
    /\ consoleError = "Failed to copy"
    /\ copyStage = "verifying"
    /\ feedbackMessage = ""
    /\ copiedRowIndex = <<>>
    /\ writes = EmptyBag
    /\ copyTimers = 0
    /\ clipboard = ClipboardBefore

(***************************************************************************)
(* Properties of the derived values of the card (checked under SpecPanel). *)
(***************************************************************************)
ItemIndices == 0..(Len(darfDoc.result.items) - 1)
ItemAt(idx) == darfDoc.result.items[idx + 1]

\* C12: the three index sets of the classifier are pairwise disjoint and their
\* union is the set of all item indices of the result.
C12_Partition ==
    LET ret   == categorizedData.itemsRetIndices
        indiv == categorizedData.itemsIndivIndices
        func  == categorizedData.itemsFuncIndices
    IN  /\ ret \cap indiv = {}
        /\ ret \cap func = {}
        /\ indiv \cap func = {}
        /\ ret \cup indiv \cup func = ItemIndices

\* C12 witness: a result of two items, a retention item that is described as
\* individual and an employee item, each in its own set.
C12_Witness ==
    /\ Len(darfDoc.result.items) = 2
    /\ IsRetention(ItemAt(0))
    /\ Includes(ToLowerCase(DescriptionOf(ItemAt(0))), Individ)
    /\ categorizedData.itemsRetIndices = {0}
    /\ categorizedData.itemsFuncIndices = {1}

RECURSIVE SumAt(_)
\* the sum of the totals of the items at the indices of S
SumAt(S) ==
    IF S = {} THEN 0
    ELSE LET i == CHOOSE j \in S : TRUE IN ItemAt(i).total + SumAt(S \ {i})

\* the item's code with everything but its digits removed is 5952, 0561 or 1062
HasRetentionCode(item) ==
    \E c \in {<<"5","9","5","2">>, <<"0","5","6","1">>, <<"1","0","6","2">>} :
        c = SelectSeq(item.code, LAMBDA ch : ch \in {"0","1","2","3","4","5","6","7","8","9"})

\* the item's description, lowercased, contains 'individ'
SaysIndividual(item) ==
    /\ "description" \in DOMAIN item
    /\ \E i \in 1..Len(item.description) :
          /\ i + 6 <= Len(item.description)
          /\ ToLowerCase(SubSeq(item.description, i, i + 6)) = <<"i","n","d","i","v","i","d">>

\* C13: an item whose code, non-digits removed, is 5952, 0561 or 1062 is
\* classified retention and nothing else, whatever its description, and the
\* two sums together hold the totals of the other items only.
C13_RetentionByCode ==
    /\ \A idx \in ItemIndices : HasRetentionCode(ItemAt(idx)) =>
          /\ idx \in categorizedData.itemsRetIndices
          /\ idx \notin categorizedData.itemsIndivIndices
          /\ idx \notin categorizedData.itemsFuncIndices
    /\ categorizedData.baseFuncionarios + categorizedData.baseIndividuais
          = SumAt({idx \in ItemIndices : ~HasRetentionCode(ItemAt(idx))})

\* C13 witness: a retention item whose code carries a formatting character
\* and whose description says individual, next to an individual item: the
\* individual sum is the second item's total alone.
C13_Witness ==
    /\ Len(darfDoc.result.items) = 2
    /\ ItemAt(0).code = <<"0","5","-","6","1">>
    /\ SaysIndividual(ItemAt(0))
    /\ ~HasRetentionCode(ItemAt(1))
    /\ SaysIndividual(ItemAt(1))
    /\ categorizedData.itemsRetIndices = {0}
    /\ categorizedData.baseIndividuais = ItemAt(1).total
    /\ categorizedData.baseFuncionarios = 0

\* C14: the individual sum is the sum of the totals of the non-retention
\* items whose lowercased description contains 'individ', the employee sum
\* that of all other non-retention items (an item with no description among
\* them); a document with no result, and a result with no items, give zero
\* sums and empty sets.
C14_Sums ==
    LET indiv == {idx \in ItemIndices :
                    ~HasRetentionCode(ItemAt(idx)) /\ SaysIndividual(ItemAt(idx))}
        func  == {idx \in ItemIndices :
                    ~HasRetentionCode(ItemAt(idx)) /\ ~SaysIndividual(ItemAt(idx))}
    IN  /\ categorizedData.itemsIndivIndices = indiv
        /\ categorizedData.itemsFuncIndices = func
        /\ categorizedData.baseIndividuais = SumAt(indiv)
        /\ categorizedData.baseFuncionarios = SumAt(func)
        /\ darfDoc.result.items = <<>> =>
              categorizedData = [baseFuncionarios |-> 0, baseIndividuais |-> 0,
                                 itemsFuncIndices |-> {}, itemsIndivIndices |-> {},
                                 itemsRetIndices |-> {}]
        /\ CategorizedData([id |-> darfDoc.id, file |-> darfDoc.file,
                            fileName |-> darfDoc.fileName, status |-> "PENDING"])
              = [baseFuncionarios |-> 0, baseIndividuais |-> 0,
                 itemsFuncIndices |-> {}, itemsIndivIndices |-> {},
                 itemsRetIndices |-> {}]

\* C14 witness: an item described in capitals as individual and an item with
\* no description, the first in the individual sum, the second in the
\* employee sum.
C14_Witness ==
    /\ Len(darfDoc.result.items) = 2
    /\ "description" \in DOMAIN ItemAt(0)
    /\ ItemAt(0).description = <<"C","P"," ","I","N","D","I","V","I","D">>
    /\ "description" \notin DOMAIN ItemAt(1)
    /\ categorizedData.baseIndividuais = ItemAt(0).total
    /\ categorizedData.baseFuncionarios = ItemAt(1).total
    /\ categorizedData.itemsRetIndices = {}

\* C15: the card of a Success document shows a match exactly when the
\* declared total and the calculated total are less than 5 cents apart.
C15_MatchBelowFiveCents ==
    LET h == darfDoc.result.headerTotal
        c == darfDoc.calculatedTotal
    IN  isMatch <=> (h - c < 5 /\ c - h < 5)

\* C16: in employee mode the final value is the employee sum less the
\* withholding, or zero where the withholding is the larger, so never
\* negative; in individual mode it is the individual sum plus the withholding.
C16_FinalValue ==
    /\ calcMode = "funcionarios" =>
          /\ finalValue >= 0
          /\ categorizedData.baseFuncionarios >= irValueNumber =>
                finalValue = categorizedData.baseFuncionarios - irValueNumber
          /\ categorizedData.baseFuncionarios < irValueNumber => finalValue = 0
    /\ calcMode = "individuais" =>
          finalValue = categorizedData.baseIndividuais + irValueNumber

\* C16 witness: employee mode with a withholding larger than an employee sum
\* that is not zero, and a final value of zero.
C16_Witness ==
    /\ calcMode = "funcionarios"
    /\ categorizedData.baseFuncionarios > 0
    /\ irValueNumber > categorizedData.baseFuncionarios
    /\ finalValue = 0

(***************************************************************************)
(* Properties of the withholding field (checked under SpecMask).           *)
(***************************************************************************)
DigitsOf(raw) ==
    SelectSeq(raw, LAMBDA ch : ch \in {"0","1","2","3","4","5","6","7","8","9"})

RECURSIVE CentsOf(_)
\* the number a string of digits writes
CentsOf(ds) ==
    IF ds = <<>> THEN 0
    ELSE 10 * CentsOf(SubSeq(ds, 1, Len(ds) - 1))
            + (CHOOSE d \in 0..9 : DigitChars[d + 1] = ds[Len(ds)])

\* s is digits in groups of three set apart by periods, a comma, two digits
TwoFractionDigits(s) ==
    /\ Len(s) >= 4
    /\ s[Len(s) - 2] = ","
    /\ \A i \in DOMAIN s :
          IF i = Len(s) - 2 THEN s[i] = ","
          ELSE IF i < Len(s) - 2 /\ (Len(s) - 2 - i) % 4 = 0 THEN s[i] = "."
          ELSE s[i] \in {"0","1","2","3","4","5","6","7","8","9"}
    /\ (Len(s) > 4 => s[1] # "0")

C18_SingleRequest ==
    \A t \in tasks :
        /\ t.requests <= 1
        /\ (t.pc \in Settled /\ t.svc # "read") => t.requests = 1

\* the result has headerTotal and items, each item with code, principal,
\* multa, juros and total
WellFormed(res) ==
    /\ {"headerTotal", "items"} \subseteq DOMAIN res
    /\ \A i \in DOMAIN res.items :
          {"code", "principal", "multa", "juros", "total"} \subseteq DOMAIN res.items[i]

\* C19: no document is a Success with a result that lacks headerTotal, items,
\* or one of code, principal, multa, juros, total in an item.
C19_ValidatedResult ==
    \A i \in DOMAIN darfs :
        (darfs[i].status = "SUCCESS" /\ "result" \in DOMAIN darfs[i])
            => WellFormed(darfs[i].result)

(***************************************************************************)
(* Properties of the rows of the card (checked under SpecCardLive).        *)
(***************************************************************************)
RowWrites == {w \in BagToSet(writes) : w.kind = "row"}

\* C21: the row copy is there for the rows of the classifier's retention set
\* and no other; it writes the row's total, and when the write succeeds the
\* row acknowledgment is that row's index, cleared again later; no step of a
\* row copy changes the panel's copy stage and no step of a panel copy
\* changes the row acknowledgment.
C21_RowCopy ==
    /\ [](\A idx \in ItemIndices :
            IsRetention(ItemAt(idx)) <=> idx \in categorizedData.itemsRetIndices)
    /\ [][\A idx \in ItemIndices : HandleCopyRowValue(idx) =>
              /\ idx \in categorizedData.itemsRetIndices
              /\ writes' = writes (+)
                    SetToBag({RowWrite(ToLocaleStringPtBR(ItemAt(idx).total), idx)})
              /\ copyStage' = copyStage]_vars
    /\ [][\A w \in RowWrites : WriteResolves(w) =>
              /\ clipboard' = w.text
              /\ copiedRowIndex' = <<w.idx>>
              /\ copyStage' = copyStage]_vars
    /\ [][RowTimerFires => (copiedRowIndex' = <<>> /\ copyStage' = copyStage)]_vars
    /\ [][(\/ InitiateCopy
           \/ \E hasIr \in BOOLEAN : HandleConfirmCopy(hasIr)
           \/ \E w \in PanelWrites : WriteResolves(w)
           \/ \E w \in PanelWrites : WriteRejects(w)
           \/ CopyTimerFires) => copiedRowIndex' = copiedRowIndex]_vars
    /\ (copiedRowIndex # <<>>) ~> (copiedRowIndex = <<>>)

\* C21 witness: the retention row (index 2) is acknowledged, the clipboard
\* holds its total, and the panel is asking for confirmation meanwhile.
C21_Witness ==
    /\ Len(darfDoc.result.items) = 3
    /\ copiedRowIndex = <<2>>
    /\ clipboard = ToLocaleStringPtBR(ItemAt(2).total)
    /\ categorizedData.itemsRetIndices = {2}
    /\ copyStage = "verifying"

(***************************************************************************)
(* Further properties of the orchestrator (checked under Spec).            *)
(***************************************************************************)
FilesListed(ds) == {ds[i].file : i \in DOMAIN ds}

\* C22: Clear All empties the list, and every other step (a selection, a
\* Processing timer, the end of an extraction) keeps every listed document in
\* the list, which does not get shorter.
C22_OnlyClearAllRemoves ==
    [][/\ ClearAll => darfs' = <<>>
       /\ ~ClearAll => /\ Len(darfs') >= Len(darfs)
                       /\ FilesListed(darfs) \subseteq FilesListed(darfs')]_vars

\* C22 witness: two documents, one failed and one succeeded, are both listed
\* after both extractions have ended.
C22_Witness ==
    /\ Len(darfs) = 2
    /\ \A t \in tasks : t.pc \in Settled
    /\ \E i, j \in DOMAIN darfs :
          darfs[i].status = "ERROR" /\ darfs[j].status = "SUCCESS"

\* C23: every list the uploader passes to onFilesSelected is nonempty and
\* holds only files of type application/pdf or image/*, whether they were
\* dropped or chosen in the file dialog; a disabled uploader passes nothing.
C23_PassesOnlyPdfOrImage ==
    /\ passed # <<>> =>
          /\ Len(passed[1]) > 0
          /\ \A i \in DOMAIN passed[1] : IsValidType(fileType[passed[1][i]])
    /\ disabled => passed = <<>> /\ darfs = <<>>

\* the statuses a document may take in one step from status st
Advances(st) ==
    CASE st = "PENDING"    -> {"PENDING", "PROCESSING"}
      [] st = "PROCESSING" -> {"PROCESSING", "SUCCESS", "ERROR"}
      [] OTHER             -> {st}

\* C24: a listed document's status only advances PENDING -> PROCESSING ->
\* SUCCESS or ERROR: once SUCCESS or ERROR it never changes again, and it
\* never goes back to PENDING or PROCESSING.
C24_StatusOnlyAdvances ==
    [][\A f \in FilesListed(darfs) \cap FilesListed(darfs') :
          DocOfFile(darfs', f).status \in Advances(DocOfFile(darfs, f).status)]_vars

\* C25: the listed documents have pairwise distinct ids in every reachable
\* state.
C25_DistinctIds ==
    \A i, j \in DOMAIN darfs : i # j => darfs[i].id # darfs[j].id

\* C26: every listed document's fields agree with its status: result and
\* calculatedTotal exactly when SUCCESS, errorMessage exactly when ERROR.
C26_FieldsAgreeWithStatus ==
    \A i \in DOMAIN darfs :
        /\ Has(darfs[i], "result") <=> darfs[i].status = "SUCCESS"
        /\ Has(darfs[i], "calculatedTotal") <=> darfs[i].status = "SUCCESS"
        /\ Has(darfs[i], "errorMessage") <=> darfs[i].status = "ERROR"

\* the tasks of documents that a Clear All took off the list
Cleared == {t \in tasks : t.file \notin FilesListed(darfs)}

\* C27: the timer and the extraction completion of a cleared document leave
\* the list as it is (nothing re-added, no document altered), the timer
\* still starting the extraction call and the completion still settling it;
\* no other step brings a cleared document back.
C27_ClearedStayDropped ==
    [][/\ \A t \in Cleared :
             /\ TimerCallback(t) =>
                   darfs' = darfs /\ TaskOfFile(tasks', t.file).pc = "await"
             /\ Completes(t) => darfs' = darfs
       /\ \A t \in Cleared : t.file \notin FilesListed(darfs')]_vars

(***************************************************************************)
(* Further properties of the copy stage (checked under SpecCard).          *)
(***************************************************************************)
\* C28: the stage becomes copied only for a text that is the formatted
\* final value of the mode and withholding then shown, and while it stays
\* copied that final value does not change.
C28_CopiedIsCurrentValue ==
    [][/\ \A w \in PanelWrites : WriteResolves(w) =>
              w.text = ToLocaleStringPtBR(finalValue')
       /\ (copyStage = "copied" /\ copyStage' = "copied") =>
              finalValue' = finalValue]_vars

\* C29: the acknowledgment timer never fires on a verifying stage, and when
\* it ends a copied stage it is the timer of that copy (no earlier timer is
\* still pending).
C29_TimerEndsOwnCopyOnly ==
    [][CopyTimerFires =>
          /\ copyStage # "verifying"
          /\ copyStage = "copied" => copyTimers = 1]_vars

(***************************************************************************)
(* Further properties of the extraction call (checked under               *)
(* SpecServiceLive).                                                       *)
(***************************************************************************)
Retrying == {t \in tasks : t.service = "part_002"}

\* C30: the retrying extractor makes at most 3 generateContent calls for a
\* file and never comes back to the head of its loop with 3 attempts made;
\* a call that settles is followed by the 2 s wait only if it was rejected
\* as overloaded (status 503 or a message with 'overloaded') with fewer than
\* 3 attempts made, and by the end of the extraction otherwise: so for an
\* empty and for an unparsable response always; every extraction ends.
C30_RetryOnlyOnOverload ==
    /\ [](\A t \in Retrying :
            /\ t.requests <= maxRetries
            /\ (t.pc = "await" /\ t.svc = "call") => t.attempt < maxRetries)
    /\ [][\A t \in Retrying : \A reply \in Replies : Reply(t, reply) =>
              LET u == TaskOfFile(tasks', t.file)
              IN  IF /\ reply.kind = "rejected"
                     /\ reply.status = 503 \/ reply.saysOverloaded
                     /\ t.attempt + 1 < maxRetries
                  THEN u.pc = "await" /\ u.svc = "backoff"
                  ELSE u.pc \in Settled]_vars
    /\ <>(\A t \in tasks : t.pc \in Settled)

====
